---- MODULE Spec2Model ----
(***************************************************************************)
(* Model of the BioGRID MCP server (src/src/biogrid-server.ts).            *)
(*                                                                         *)
(* Strings that the code inspects character by character (URIs, gene      *)
(* identifiers, type names, synonyms) are sequences of code points.        *)
(* JavaScript values are records [t |-> type tag, v |-> payload].          *)
(***************************************************************************)
EXTENDS Integers, Sequences, FiniteSets, TLC

(***************************************************************************)
(* Bounds of the model.                                                    *)
(***************************************************************************)
MaxTail == 3          \* longest identifier part of a resource URI
MaxRecords == 2       \* longest upstream payload
MaxInvocations == 2   \* invocations served in one behaviour

(***************************************************************************)
(* String literals of the source, as code points.                          *)
(***************************************************************************)
S_all == <<97, 108, 108>>                                 \* 'all'
S_physical == <<112, 104, 121, 115, 105, 99, 97, 108>>    \* 'physical'
S_genetic == <<103, 101, 110, 101, 116, 105, 99>>         \* 'genetic'
S_Physical == <<80, 104, 121, 115, 105, 99, 97, 108>>     \* "Physical"
S_GENETIC == <<71, 69, 78, 69, 84, 73, 67>>               \* "GENETIC"
S_true == <<116, 114, 117, 101>>                          \* 'true'
S_false == <<102, 97, 108, 115, 101>>                     \* 'false'
S_json == <<106, 115, 111, 110>>                          \* 'json'
S_zero == <<48>>                                          \* '0'
S_10000 == <<49, 48, 48, 48, 48>>                         \* '10000'
S_comma == <<44>>                                         \* ','
S_pipe == <<124>>                                         \* '|'
\* 'biogrid://export/'
S_uriPrefix == <<98, 105, 111, 103, 114, 105, 100, 58, 47, 47,
                 101, 120, 112, 111, 114, 116, 47>>

(***************************************************************************)
(* JavaScript values.                                                      *)
(***************************************************************************)
Undefined == [t |-> "undefined", v |-> <<>>]
JStr(s) == [t |-> "string", v |-> s]
JNum(n) == [t |-> "number", v |-> <<n>>]
JArr(a) == [t |-> "array", v |-> a]

\* typeof x === 'string'
IsString(x) == x.t = "string"

\* ToBoolean: undefined, "", 0 are falsy, every other modelled value truthy
Truthy(x) ==
    CASE x.t = "undefined" -> FALSE
      [] x.t = "string" -> Len(x.v) > 0
      [] x.t = "number" -> x.v[1] # 0
      [] OTHER -> TRUE

\* mutant: the element check is left out
isStringArray_noEvery(val) == val.t = "array"

\* Array.isArray(val) && val.every((x) => typeof x === 'string')
isStringArray(val) ==
    /\ val.t = "array"
    /\ \A k \in 1..Len(val.v) : IsString(val.v[k])

(***************************************************************************)
(* String functions of the runtime.                                        *)
(***************************************************************************)
\* String.prototype.toLowerCase on the ASCII range
LowerChar(c) == IF c >= 65 /\ c <= 90 THEN c + 32 ELSE c
ToLowerCase(s) == [k \in 1..Len(s) |-> LowerChar(s[k])]

\* decimal digits of a natural number
RECURSIVE Digits(_)
Digits(n) == IF n < 10 THEN <<48 + n>> ELSE Append(Digits(n \div 10), 48 + (n % 10))

\* String(n) for an integer n
NumToString(n) == IF n < 0 THEN <<45>> \o Digits(0 - n) ELSE Digits(n)

\* String(x) for the values that reach it
JsString(x) ==
    CASE x.t = "number" -> NumToString(x.v[1])
      [] x.t = "string" -> x.v
      [] OTHER -> <<>>

\* s.split(sep) for a one-character separator: the pieces between separators
RECURSIVE SplitFrom(_, _, _, _)
SplitFrom(s, sep, k, cur) ==
    IF k > Len(s) THEN <<cur>>
    ELSE IF s[k] = sep THEN <<cur>> \o SplitFrom(s, sep, k + 1, <<>>)
    ELSE SplitFrom(s, sep, k + 1, Append(cur, s[k]))
Split(s, sep) == SplitFrom(s, sep[1], 1, <<>>)

\* a.join(sep) for an array of strings
RECURSIVE Join(_, _)
Join(a, sep) ==
    IF Len(a) = 0 THEN <<>>
    ELSE IF Len(a) = 1 THEN a[1]
    ELSE a[1] \o sep \o Join(Tail(a), sep)

\* value of a hexadecimal digit, -1 when the character is none
HexVal(c) ==
    IF c >= 48 /\ c <= 57 THEN c - 48
    ELSE IF c >= 65 /\ c <= 70 THEN c - 55
    ELSE IF c >= 97 /\ c <= 102 THEN c - 87
    ELSE 0 - 1

\* the byte of the escape %XX at position k of s, -1 when there is no escape
EscapeAt(s, k) ==
    IF k + 2 > Len(s) \/ s[k] # 37 THEN 0 - 1
    ELSE IF HexVal(s[k + 1]) < 0 \/ HexVal(s[k + 2]) < 0 THEN 0 - 1
    ELSE 16 * HexVal(s[k + 1]) + HexVal(s[k + 2])

\* number of continuation bytes a UTF-8 lead byte announces, -1 when invalid
Continuations(b) ==
    IF b >= 194 /\ b <= 223 THEN 1
    ELSE IF b >= 224 /\ b <= 239 THEN 2
    ELSE IF b >= 240 /\ b <= 244 THEN 3
    ELSE 0 - 1

\* the n continuation escapes from position k on: code point bits, -1 when malformed
RECURSIVE ContBits(_, _, _, _)
ContBits(s, k, n, acc) ==
    IF n = 0 THEN acc
    ELSE IF EscapeAt(s, k) < 128 \/ EscapeAt(s, k) > 191 THEN 0 - 1
    ELSE ContBits(s, k + 3, n - 1, acc * 64 + (EscapeAt(s, k) - 128))

LeadBits(b) == IF b <= 223 THEN b - 192 ELSE IF b <= 239 THEN b - 224 ELSE b - 240
MinCodePoint(n) == IF n = 1 THEN 128 ELSE IF n = 2 THEN 2048 ELSE 65536

\* decodeURIComponent: [ok |-> FALSE] stands for the URIError it throws
RECURSIVE DecodeFrom(_, _, _)
DecodeFrom(s, k, out) ==
    IF k > Len(s) THEN [ok |-> TRUE, v |-> out]
    ELSE IF s[k] # 37 THEN DecodeFrom(s, k + 1, Append(out, s[k]))
    ELSE LET b == EscapeAt(s, k) IN
         IF b < 0 THEN [ok |-> FALSE, v |-> <<>>]
         ELSE IF b < 128 THEN DecodeFrom(s, k + 3, Append(out, b))
         ELSE LET n == Continuations(b) IN
              IF n < 0 THEN [ok |-> FALSE, v |-> <<>>]
              ELSE LET cp == ContBits(s, k + 3, n, LeadBits(b)) IN
                   IF \/ cp < MinCodePoint(n)
                      \/ cp > 1114111
                      \/ (cp >= 55296 /\ cp <= 57343)
                   THEN [ok |-> FALSE, v |-> <<>>]
                   ELSE DecodeFrom(s, k + 3 + 3 * n, Append(out, cp))
decodeURIComponent(s) == DecodeFrom(s, 1, <<>>)

\* the line terminators the '.' of a pattern does not match
IsLineTerminator(c) == c \in {10, 13, 8232, 8233}

\* mutant: the pattern is not anchored at the start of the input
UriMatch_unanchored(uri) ==
    LET p == Len(S_uriPrefix)
        starts == { b \in 1..Len(uri) :
                      /\ b + p <= Len(uri)
                      /\ SubSeq(uri, b, b + p - 1) = S_uriPrefix
                      /\ \A k \in (b + p)..Len(uri) : ~IsLineTerminator(uri[k]) }
    IN IF starts = {} THEN <<>>
       ELSE LET b == CHOOSE x \in starts : \A y \in starts : x <= y
            IN SubSeq(uri, b + p, Len(uri))

\* uri.match(/^biogrid:\/\/export\/(.+)$/): the captured group, <<>> when no match.
\* '.' matches no line terminator and '$' only the end of the input.
UriMatch(uri) ==
    LET p == Len(S_uriPrefix) IN
    IF /\ Len(uri) > p
       /\ SubSeq(uri, 1, p) = S_uriPrefix
       /\ \A k \in (p + 1)..Len(uri) : ~IsLineTerminator(uri[k])
    THEN SubSeq(uri, p + 1, Len(uri))
    ELSE <<>>

(***************************************************************************)
(* JSON.stringify: the JSON text is modelled by the value it denotes.      *)
(* A property whose value is undefined is left out of an object.           *)
(***************************************************************************)
JObj(r) == [t |-> "object", v |-> [k \in {f \in DOMAIN r : r[f].t # "undefined"} |-> r[k]]]
Stringify(r) == [json |-> JObj(r)]

(***************************************************************************)
(* The upstream service: payloads and failures it can answer with.         *)
(***************************************************************************)
\* one BioGridInteraction; EXPERIMENTAL_SYSTEM_TYPE may be missing in a record
IRec(a, b, st) ==
    [OFFICIAL_SYMBOL_A |-> JStr(a), OFFICIAL_SYMBOL_B |-> JStr(b),
     BIOGRID_INTERACTION_ID |-> JStr(<<57>>), EXPERIMENTAL_SYSTEM |-> JStr(<<89>>),
     EXPERIMENTAL_SYSTEM_TYPE |-> st, PUBMED_ID |-> JStr(<<56>>)]

InteractionRecords ==
    { IRec(<<65>>, <<66>>, JStr(S_physical)),
      IRec(<<65>>, <<67>>, JStr(S_Physical)),
      IRec(<<66>>, <<67>>, JStr(S_genetic)),
      IRec(<<66>>, <<68>>, JStr(S_GENETIC)),
      IRec(<<67>>, <<68>>, Undefined) }

\* one GeneResult; SYNONYMS may be missing in a record
GRec(sym, syn) ==
    [BIOGRID_ID |-> JStr(<<49>>), OFFICIAL_SYMBOL |-> JStr(sym), SYNONYMS |-> syn,
     TAXON_ID |-> JStr(<<57>>), ORGANISM_NAME |-> JStr(<<72>>)]

GeneRecords ==
    { GRec(<<65>>, JStr(<<112, 124, 113>>)),      \* "p|q"
      GRec(<<66>>, JStr(<<112>>)),                \* "p"
      GRec(<<69>>, JStr(<<112, 124, 113, 124, 114>>)),   \* "p|q|r"
      GRec(<<67>>, JStr(<<>>)),                   \* ""
      GRec(<<68>>, Undefined) }

SeqsUpTo(S, n) == UNION { [1..k -> S] : k \in 0..n }

\* a response body that is no array
NotAnArray == [t |-> "object", v |-> <<>>]

InteractionPayloads == { JArr(a) : a \in SeqsUpTo(InteractionRecords, MaxRecords) }
GenePayloads == { JArr(a) : a \in SeqsUpTo(GeneRecords, MaxRecords) }
Payloads(path) ==
    (IF path = "/interactions/" THEN InteractionPayloads ELSE GenePayloads)
    \cup {NotAnArray}

\* the errors the client rejects with; messages are sequences of words
UpstreamErrors ==
    { [name |-> "AxiosError", message |-> <<"timeout", "of", "20000ms", "exceeded">>],
      [name |-> "AxiosError", message |-> <<"Network", "Error">>],
      [name |-> "AxiosError", message |-> <<"Request", "failed", "with", "status", "code", "500">>],
      [name |-> "AxiosError", message |-> <<>>] }

\* the TypeError raised when a method is called on a value that lacks it
TypeError(words) == [name |-> "TypeError", message |-> words]

(***************************************************************************)
(* Outcomes of a handler.                                                  *)
(***************************************************************************)
NoOutcome == [kind |-> "none"]
\* throw new McpError(code, message)
McpError(code, message) == [kind |-> "McpError", code |-> code, message |-> message]
\* an exception that is no McpError leaves the handler
Thrown(name) == [kind |-> "untyped", name |-> name]
\* { content: [{ type: 'text', text }] }
ToolResult(text) == [kind |-> "success", content |-> <<[type |-> "text", text |-> text]>>]
\* { contents: [{ uri, mimeType: 'application/json', text }] }
ResourceResult(uri, text) ==
    [kind |-> "success",
     contents |-> <<[uri |-> uri, mimeType |-> "application/json", text |-> text]>>]

\* mutant: the message of the failure is dropped
ErrText_generic(err) == <<"Internal", "error">>

\* `${err.message || err}`
ErrText(err) == IF Len(err.message) > 0 THEN err.message ELSE <<err.name>>

(***************************************************************************)
(* The query helpers.  Each helper runs up to its await of this.api.get    *)
(* (it throws, or it issues one request) and resumes in its try block when *)
(* the request is answered, or in its catch block when it is rejected.     *)
(***************************************************************************)
NoRequest == [path |-> "none"]

\* mutant: a client created without default params
Get_noDefaults(key, path, params) == [path |-> path, params |-> params]

\* this.api.get(path, { params }): axios merges the instance's default
\* params { format, accesskey } under the params of the call
Get(key, path, params) ==
    [path |-> path, params |-> params @@ [format |-> S_json, accesskey |-> key]]

\* x || d
OrElse(x, d) == IF Truthy(x) THEN x ELSE d

Throws(e) == [thrown |-> e, request |-> NoRequest]
Awaits(r) == [thrown |-> NoOutcome, request |-> r]

\* mutant: the type filter is sent without the inter-species flag
runInteractionQuery_noFlag(key, gene, taxon_id, type, max_results) ==
    IF ~IsString(gene)
    THEN Throws(McpError("InvalidParams", <<"gene", "must", "be", "string">>))
    ELSE LET base == [searchNames |-> S_true,
                      geneList |-> gene.v,
                      includeInteractors |-> S_true,
                      start |-> S_zero,
                      max |-> JsString(OrElse(max_results, JNum(500)))]
             taxon == IF Truthy(taxon_id) THEN [taxonId |-> JsString(taxon_id)] ELSE <<>>
             typed == IF type # S_all
                      THEN [experimentalSystemType |-> type]
                      ELSE <<>>
         IN Awaits(Get(key, "/interactions/", typed @@ taxon @@ base))

\* lines 254-266: validation, params, the request
runInteractionQuery(key, gene, taxon_id, type, max_results) ==
    IF ~IsString(gene)
    THEN Throws(McpError("InvalidParams", <<"gene", "must", "be", "string">>))
    ELSE LET base == [searchNames |-> S_true,
                      geneList |-> gene.v,
                      includeInteractors |-> S_true,
                      start |-> S_zero,
                      max |-> JsString(OrElse(max_results, JNum(500)))]
             taxon == IF Truthy(taxon_id) THEN [taxonId |-> JsString(taxon_id)] ELSE <<>>
             typed == IF type # S_all
                      THEN [interSpeciesExcluded |-> S_true, experimentalSystemType |-> type]
                      ELSE <<>>
         IN Awaits(Get(key, "/interactions/", typed @@ taxon @@ base))

\* mutant: the filter keeps every record
KeepsRecord_any(d, type) == TRUE

\* line 267: the predicate of data.filter
KeepsRecord(d, type) ==
    type = S_all \/ ToLowerCase(d.EXPERIMENTAL_SYSTEM_TYPE.v) = type

\* line 267: data.filter(...)
RECURSIVE Filter(_, _)
Filter(a, type) ==
    IF Len(a) = 0 THEN <<>>
    ELSE IF KeepsRecord(Head(a), type) THEN <<Head(a)>> \o Filter(Tail(a), type)
    ELSE Filter(Tail(a), type)

\* lines 277-284: the projection of one record
Edge(d) ==
    JObj([a |-> d.OFFICIAL_SYMBOL_A,
          b |-> d.OFFICIAL_SYMBOL_B,
          biogrid_interaction_id |-> d.BIOGRID_INTERACTION_ID,
          experimental_system |-> d.EXPERIMENTAL_SYSTEM,
          system_type |-> d.EXPERIMENTAL_SYSTEM_TYPE,
          pubmed_id |-> d.PUBMED_ID])

\* mutant: the count is taken before the filter
InteractionCount_raw(data, filtered) == Len(data)

\* line 276: count of the interaction envelope
InteractionCount(data, filtered) == Len(filtered)

\* lines 292-294
runInteractionQueryCatch(err) ==
    McpError("InternalError", <<"BioGRID", "API", "error:">> \o ErrText(err))

\* lines 266-294: the try block once the request is answered with data
runInteractionQueryThen(gene, type, data) ==
    IF data.t # "array"
    THEN runInteractionQueryCatch(TypeError(<<"data.filter", "is", "not", "a", "function">>))
    ELSE IF type # S_all /\ \E k \in 1..Len(data.v) : ~IsString(data.v[k].EXPERIMENTAL_SYSTEM_TYPE)
    THEN runInteractionQueryCatch(TypeError(<<"Cannot", "read", "properties", "of", "undefined">>))
    ELSE LET filtered == Filter(data.v, type) IN
         ToolResult(Stringify(
             [query_gene |-> gene,
              interaction_type |-> JStr(type),
              count |-> JNum(InteractionCount(data.v, filtered)),
              edges |-> JArr([k \in 1..Len(filtered) |-> Edge(filtered[k])])]))

\* lines 298-308
runGeneSearch(key, query, taxon_id, max_results) ==
    IF ~IsString(query)
    THEN Throws(McpError("InvalidParams", <<"query", "must", "be", "string">>))
    ELSE LET base == [searchNames |-> S_true,
                      geneList |-> query.v,
                      start |-> S_zero,
                      max |-> JsString(OrElse(max_results, JNum(25)))]
             taxon == IF Truthy(taxon_id) THEN [taxonId |-> JsString(taxon_id)] ELSE <<>>
         IN Awaits(Get(key, "/gene/", taxon @@ base))

\* mutant: the SYNONYMS field is passed on as one name
Gene_unsplit(g) ==
    JObj([biogrid_id |-> g.BIOGRID_ID,
          symbol |-> g.OFFICIAL_SYMBOL,
          synonyms |-> JArr(<<g.SYNONYMS>>),
          taxon_id |-> g.TAXON_ID,
          organism |-> g.ORGANISM_NAME])

\* lines 316-322: the projection of one gene record
Gene(g) ==
    JObj([biogrid_id |-> g.BIOGRID_ID,
          symbol |-> g.OFFICIAL_SYMBOL,
          synonyms |-> LET parts == Split(g.SYNONYMS.v, S_pipe)
                       IN JArr([k \in 1..Len(parts) |-> JStr(parts[k])]),
          taxon_id |-> g.TAXON_ID,
          organism |-> g.ORGANISM_NAME])

\* lines 327-329
runGeneSearchCatch(err) ==
    McpError("InternalError", <<"BioGRID", "gene", "search", "error:">> \o ErrText(err))

\* lines 308-329
runGeneSearchThen(query, data) ==
    IF data.t # "array"
    THEN runGeneSearchCatch(TypeError(<<"data.map", "is", "not", "a", "function">>))
    ELSE IF \E k \in 1..Len(data.v) : ~IsString(data.v[k].SYNONYMS)
    THEN runGeneSearchCatch(TypeError(<<"Cannot", "read", "properties", "of", "undefined">>))
    ELSE ToolResult(Stringify(
             [query |-> query,
              count |-> JNum(Len(data.v)),
              genes |-> JArr([k \in 1..Len(data.v) |-> Gene(data.v[k])])]))

\* mutant: the request is built with interactor expansion left on
runEdgeExport_expand(key, ids, interaction_type) ==
    IF ~isStringArray(ids) \/ Len(ids.v) = 0
    THEN Throws(McpError("InvalidParams", <<"biogrid_ids", "array", "required">>))
    ELSE LET base == [geneList |-> Join([k \in 1..Len(ids.v) |-> ids.v[k].v], S_pipe),
                      includeInteractors |-> S_true,
                      format |-> S_json,
                      start |-> S_zero,
                      max |-> S_10000,
                      accesskey |-> key]
             typed == IF interaction_type # JStr(S_all)
                      THEN [experimentalSystemType |-> JsString(interaction_type)]
                      ELSE <<>>
         IN Awaits(Get(key, "/interactions/", typed @@ base))

\* lines 333-345; ids and interaction_type are JavaScript values
runEdgeExport(key, ids, interaction_type) ==
    IF ~isStringArray(ids) \/ Len(ids.v) = 0
    THEN Throws(McpError("InvalidParams", <<"biogrid_ids", "array", "required">>))
    ELSE LET base == [geneList |-> Join([k \in 1..Len(ids.v) |-> ids.v[k].v], S_pipe),
                      includeInteractors |-> S_false,
                      format |-> S_json,
                      start |-> S_zero,
                      max |-> S_10000,
                      accesskey |-> key]
             typed == IF interaction_type # JStr(S_all)
                      THEN [experimentalSystemType |-> JsString(interaction_type)]
                      ELSE <<>>
         IN Awaits(Get(key, "/interactions/", typed @@ base))

\* line 346: one [source, target] pair; undefined is written as null in an array
NullIfUndefined(x) == IF x.t = "undefined" THEN [t |-> "null", v |-> <<>>] ELSE x
Pair(d) == JArr(<<NullIfUndefined(d.OFFICIAL_SYMBOL_A), NullIfUndefined(d.OFFICIAL_SYMBOL_B)>>)

\* lines 355-357
runEdgeExportCatch(err) ==
    McpError("InternalError", <<"BioGRID", "edge", "export", "error:">> \o ErrText(err))

\* lines 345-357
runEdgeExportThen(data) ==
    IF data.t # "array"
    THEN runEdgeExportCatch(TypeError(<<"data.map", "is", "not", "a", "function">>))
    ELSE LET edgeList == [k \in 1..Len(data.v) |-> Pair(data.v[k])] IN
         ToolResult(Stringify([edge_list |-> JArr(edgeList), count |-> JNum(Len(edgeList))]))

(***************************************************************************)
(* Inputs: the requests the protocol runtime can route to the handlers.    *)
(***************************************************************************)
ToolNames == {"get_gene_interactions", "get_physical_interactions",
              "get_genetic_interactions", "search_genes", "export_edge_list"}
UnknownNames == {"get_neighbors", ""}

NoArgs == [gene |-> Undefined, query |-> Undefined, taxon_id |-> Undefined,
           max_results |-> Undefined, biogrid_ids |-> Undefined,
           interaction_type |-> Undefined]
ArgsObject(r) == [t |-> "object", v |-> r @@ NoArgs]

GeneValues == {Undefined, JStr(<<84, 80>>), JNum(7)}
TaxonValues == {Undefined, JStr(<<>>), JStr(<<57, 54>>)}
MaxValues == {Undefined, JNum(0), JNum(1), JNum(0 - 1), JNum(100), JNum(101),
              JNum(10000), JNum(10001)}
IdsValues == {Undefined, JStr(<<49>>), JArr(<<>>), JArr(<<JStr(<<49>>)>>),
              JArr(<<JStr(<<49>>), JStr(<<50>>)>>), JArr(<<JStr(<<49>>), JNum(2)>>),
              JArr(<<JStr(<<>>)>>)}
\* export_edge_list declares no max_results; a caller may send one all the same
ExportMaxValues == {Undefined, JNum(1)}
TypeValues == {Undefined, JStr(<<>>), JStr(S_all), JStr(S_physical), JStr(S_genetic)}

\* the argument values a call of the named tool can carry; Undefined is a
\* call without an arguments member
ArgsFor(name) ==
    {Undefined} \cup
    (IF name \in {"get_gene_interactions", "get_physical_interactions",
                  "get_genetic_interactions"}
     THEN { ArgsObject([gene |-> g, taxon_id |-> x, max_results |-> m]) :
              g \in GeneValues, x \in TaxonValues, m \in MaxValues }
     ELSE IF name = "search_genes"
     THEN { ArgsObject([query |-> g, taxon_id |-> x, max_results |-> m]) :
              g \in GeneValues, x \in TaxonValues, m \in MaxValues }
     ELSE IF name = "export_edge_list"
     THEN { ArgsObject([biogrid_ids |-> a, interaction_type |-> y, max_results |-> m]) :
              a \in IdsValues, y \in TypeValues, m \in ExportMaxValues }
     ELSE { ArgsObject([gene |-> g]) : g \in GeneValues })

\* resource URIs: a prefix followed by at most MaxTail characters out of
\* '1' '2' ',' '%' 'C' and the line feed
TailChars == {49, 50, 44, 37, 67, 10}
UriPrefixes == {S_uriPrefix, SubSeq(S_uriPrefix, 1, Len(S_uriPrefix) - 1),
                <<120>> \o S_uriPrefix}
Uris == { p \o x : p \in UriPrefixes, x \in SeqsUpTo(TailChars, MaxTail) }

\* the values of BIOGRID_API_KEY in the environment
EnvValues == {Undefined, JStr(<<>>), JStr(<<75>>)}

Slots == {"s1"}

(***************************************************************************)
(* State.                                                                  *)
(***************************************************************************)
VARIABLES
    env,        \* process.env.BIOGRID_API_KEY
    proc,       \* "starting", "constructed" (handlers registered), "serving"
                \* (connected to the transport) or "exited"
    apiKey,     \* this.apiKey
    calls,      \* the invocations in progress, one per slot: the request, the
                \* helper's activation record, the upstream request and its
                \* answer, the number of requests issued, the outcome
    served      \* invocations routed to a handler so far

vars == <<env, proc, apiKey, calls, served>>

Idle == [pc |-> "idle", req |-> [kind |-> "none"], frame |-> [fn |-> "none"],
         request |-> NoRequest, nreq |-> 0, response |-> [kind |-> "none"],
         outcome |-> NoOutcome]

Init ==
    /\ env \in EnvValues
    /\ proc = "starting"
    /\ apiKey = Undefined
    /\ calls = [i \in Slots |-> Idle]
    /\ served = 0

\* mutant: the missing key is reported but the process goes on
assertEnv_noExit(e) == TRUE

\* lines 76-81: assertEnv returns when the variable is set and exits otherwise
assertEnv(e) == Truthy(e)

\* lines 91-115: the constructor: assertEnv, the key, the client, the handlers
Boot ==
    /\ proc = "starting"
    /\ IF ~assertEnv(env)
       THEN proc' = "exited" /\ apiKey' = apiKey
       ELSE proc' = "constructed" /\ apiKey' = env
    /\ UNCHANGED <<env, calls, served>>

\* lines 361-368: run() connects the server to its transport
Run ==
    /\ proc = "constructed"
    /\ proc' = "serving"
    /\ UNCHANGED <<env, apiKey, calls, served>>

\* the runtime routes a tools/call request to the handler
ReceiveToolCall(i) ==
    /\ proc = "serving"
    /\ calls[i].pc = "idle"
    /\ served < MaxInvocations
    /\ \E name \in ToolNames \cup UnknownNames : \E args \in ArgsFor(name) :
         calls' = [calls EXCEPT ![i] =
                     [Idle EXCEPT !.pc = "validating",
                                  !.req = [kind |-> "tool", name |-> name, args |-> args]]]
    /\ served' = served + 1
    /\ UNCHANGED <<env, proc, apiKey>>

\* the runtime routes a resources/read request to the handler
ReceiveResourceRead(i) ==
    /\ proc = "serving"
    /\ calls[i].pc = "idle"
    /\ served < MaxInvocations
    /\ \E uri \in Uris :
         calls' = [calls EXCEPT ![i] =
                     [Idle EXCEPT !.pc = "validating",
                                  !.req = [kind |-> "resource", uri |-> uri]]]
    /\ served' = served + 1
    /\ UNCHANGED <<env, proc, apiKey>>

\* the activation record a helper keeps across its await
Frame(fn, arg, type) == [fn |-> fn, arg |-> arg, type |-> type]

\* lines 196-201: the type each interaction tool passes
TypeOfTool(name) ==
    CASE name = "get_gene_interactions" -> S_all
      [] name = "get_physical_interactions" -> S_physical
      [] name = "get_genetic_interactions" -> S_genetic

\* mutant: the default branch raises the wrong error code
UnknownTool_wrongCode(name) == Throws(McpError("InvalidParams", <<"Unknown", "tool:", name>>))

\* line 207: the default branch of the switch
UnknownTool(name) == Throws(McpError("MethodNotFound", <<"Unknown", "tool:", name>>))

\* lines 193-209: the switch of the tools/call handler, up to the await of
\* the helper it returns.  Reading a property of an absent arguments object
\* throws a TypeError before the helper is called.
Dispatch(key, name, args) ==
    IF name \notin ToolNames
    THEN [step |-> UnknownTool(name), frame |-> Idle.frame]
    ELSE IF args.t # "object"
    THEN [step |-> Throws(Thrown("TypeError")), frame |-> Idle.frame]
    ELSE IF name = "search_genes"
    THEN [step |-> runGeneSearch(key, args.v.query, args.v.taxon_id, args.v.max_results),
          frame |-> Frame("runGeneSearch", args.v.query, <<>>)]
    ELSE IF name = "export_edge_list"
    THEN [step |-> runEdgeExport(key, args.v.biogrid_ids,
                                 OrElse(args.v.interaction_type, JStr(S_all))),
          frame |-> Frame("runEdgeExport", Undefined, <<>>)]
    ELSE [step |-> runInteractionQuery(key, args.v.gene, args.v.taxon_id,
                                       TypeOfTool(name), args.v.max_results),
          frame |-> Frame("runInteractionQuery", args.v.gene, TypeOfTool(name))]

\* lines 228-232: the resources/read handler up to the await of runEdgeExport
ReadResource(key, uri) ==
    LET match == UriMatch(uri) IN
    IF match = <<>>
    THEN [step |-> Throws(McpError("InvalidRequest", <<"Invalid", "biogrid", "URI">>)),
          frame |-> Idle.frame]
    ELSE LET decoded == decodeURIComponent(match) IN
         IF ~decoded.ok
         THEN [step |-> Throws(Thrown("URIError")), frame |-> Idle.frame]
         ELSE LET ids == Split(decoded.v, S_comma) IN
              [step |-> runEdgeExport(key, JArr([k \in 1..Len(ids) |-> JStr(ids[k])]),
                                      JStr(S_all)),
               frame |-> Frame("runEdgeExport", Undefined, <<>>)]

\* mutant: the request is sent before the arguments are validated
Start_requestFirst(i, d) ==
    IF d.step.thrown # NoOutcome
    THEN calls' = [calls EXCEPT ![i].pc = "done", ![i].outcome = d.step.thrown,
                                ![i].nreq = calls[i].nreq + 1]
    ELSE calls' = [calls EXCEPT ![i].pc = "executing", ![i].frame = d.frame,
                                ![i].request = d.step.request,
                                ![i].nreq = calls[i].nreq + 1]

\* the handler runs until it throws or awaits the upstream request
Start(i, d) ==
    IF d.step.thrown # NoOutcome
    THEN calls' = [calls EXCEPT ![i].pc = "done", ![i].outcome = d.step.thrown]
    ELSE calls' = [calls EXCEPT ![i].pc = "executing", ![i].frame = d.frame,
                                ![i].request = d.step.request,
                                ![i].nreq = calls[i].nreq + 1]

CallToolHandler(i) ==
    /\ calls[i].pc = "validating"
    /\ calls[i].req.kind = "tool"
    /\ \E d \in {Dispatch(apiKey.v, calls[i].req.name, calls[i].req.args)} : Start(i, d)
    /\ UNCHANGED <<env, proc, apiKey, served>>

ReadResourceHandler(i) ==
    /\ calls[i].pc = "validating"
    /\ calls[i].req.kind = "resource"
    /\ \E d \in {ReadResource(apiKey.v, calls[i].req.uri)} : Start(i, d)
    /\ UNCHANGED <<env, proc, apiKey, served>>

\* the helper's try block on the answer of the request
Then(frame, data) ==
    CASE frame.fn = "runInteractionQuery" -> runInteractionQueryThen(frame.arg, frame.type, data)
      [] frame.fn = "runGeneSearch" -> runGeneSearchThen(frame.arg, data)
      [] frame.fn = "runEdgeExport" -> runEdgeExportThen(data)

\* the helper's catch block on the rejection of the request
Catch(frame, err) ==
    CASE frame.fn = "runInteractionQuery" -> runInteractionQueryCatch(err)
      [] frame.fn = "runGeneSearch" -> runGeneSearchCatch(err)
      [] frame.fn = "runEdgeExport" -> runEdgeExportCatch(err)

\* lines 233-241: the resources/read handler wraps the text of a result and
\* lets an error pass; the tools/call handler returns the helper's outcome
Finish(req, o) ==
    IF req.kind = "resource" /\ o.kind = "success"
    THEN ResourceResult(req.uri, o.content[1].text)
    ELSE o

\* the upstream service answers the request with a payload
UpstreamRespond(i) ==
    /\ calls[i].pc = "executing"
    /\ \E data \in Payloads(calls[i].request.path) :
         calls' = [calls EXCEPT ![i].pc = "done",
                                ![i].response = [kind |-> "data", data |-> data],
                                ![i].outcome = Finish(calls[i].req, Then(calls[i].frame, data))]
    /\ UNCHANGED <<env, proc, apiKey, served>>

\* mutant: one failed request rejects every request that is pending
UpstreamFail_all(i) ==
    /\ calls[i].pc = "executing"
    /\ \E err \in UpstreamErrors :
         calls' = [j \in DOMAIN calls |->
                     IF calls[j].pc = "executing"
                     THEN [calls[j] EXCEPT !.pc = "done",
                                           !.response = [kind |-> "error", err |-> err],
                                           !.outcome = Finish(calls[j].req, Catch(calls[j].frame, err))]
                     ELSE calls[j]]
    /\ UNCHANGED <<env, proc, apiKey, served>>

\* the request fails: network failure, timeout or non-success status
UpstreamFail(i) ==
    /\ calls[i].pc = "executing"
    /\ \E err \in UpstreamErrors :
         calls' = [calls EXCEPT ![i].pc = "done",
                                ![i].response = [kind |-> "error", err |-> err],
                                ![i].outcome = Finish(calls[i].req, Catch(calls[i].frame, err))]
    /\ UNCHANGED <<env, proc, apiKey, served>>

\* the runtime has sent the response; nothing of the invocation is kept
Return(i) ==
    /\ calls[i].pc = "done"
    /\ calls' = [calls EXCEPT ![i] = Idle]
    /\ UNCHANGED <<env, proc, apiKey, served>>

Next ==
    \/ Boot
    \/ Run
    \/ \E i \in DOMAIN calls : ReceiveToolCall(i)
    \/ \E i \in DOMAIN calls : ReceiveResourceRead(i)
    \/ \E i \in DOMAIN calls : CallToolHandler(i)
    \/ \E i \in DOMAIN calls : ReadResourceHandler(i)
    \/ \E i \in DOMAIN calls : UpstreamRespond(i)
    \/ \E i \in DOMAIN calls : UpstreamFail(i)
    \/ \E i \in DOMAIN calls : Return(i)

Spec == Init /\ [][Next]_vars

(***************************************************************************)
(* Concurrent invocations: the handlers are async functions, so a second   *)
(* request is routed while the first one awaits its upstream answer. Two   *)
(* activations run side by side over a few requests and answers.           *)
(***************************************************************************)
ConcSlots == {"s1", "s2"}

ConcRequests ==
    { [kind |-> "tool", name |-> "get_physical_interactions",
       args |-> ArgsObject([gene |-> JStr(<<84, 80>>)])],
      [kind |-> "tool", name |-> "get_gene_interactions",
       args |-> ArgsObject([gene |-> JNum(7)])],
      [kind |-> "tool", name |-> "search_genes",
       args |-> ArgsObject([query |-> JStr(<<84, 80>>)])],
      [kind |-> "tool", name |-> "export_edge_list",
       args |-> ArgsObject([biogrid_ids |-> JArr(<<JStr(<<49>>), JStr(<<50>>)>>),
                            interaction_type |-> JStr(S_physical)])],
      [kind |-> "tool", name |-> "get_neighbors", args |-> Undefined],
      [kind |-> "resource", uri |-> S_uriPrefix \o <<49, 44, 50>>],
      [kind |-> "resource", uri |-> S_uriPrefix \o <<37>>] }

ConcPayloads(path) ==
    IF path = "/interactions/"
    THEN { JArr(<<>>),
           JArr(<<IRec(<<65>>, <<67>>, JStr(S_Physical)),
                  IRec(<<66>>, <<67>>, JStr(S_genetic))>>),
           NotAnArray }
    ELSE { JArr(<<GRec(<<65>>, JStr(<<112, 124, 113>>))>>), NotAnArray }

InitConc ==
    /\ env \in EnvValues
    /\ proc = "starting"
    /\ apiKey = Undefined
    /\ calls = [i \in ConcSlots |-> Idle]
    /\ served = 0

\* the runtime routes a request to its handler while others are in progress
ReceiveConc(i) ==
    /\ proc = "serving"
    /\ calls[i].pc = "idle"
    /\ served < MaxInvocations
    /\ \E r \in ConcRequests :
         calls' = [calls EXCEPT ![i] = [Idle EXCEPT !.pc = "validating", !.req = r]]
    /\ served' = served + 1
    /\ UNCHANGED <<env, proc, apiKey>>

\* the upstream service answers the request of one activation
UpstreamRespondConc(i) ==
    /\ calls[i].pc = "executing"
    /\ \E data \in ConcPayloads(calls[i].request.path) :
         calls' = [calls EXCEPT ![i].pc = "done",
                                ![i].response = [kind |-> "data", data |-> data],
                                ![i].outcome = Finish(calls[i].req, Then(calls[i].frame, data))]
    /\ UNCHANGED <<env, proc, apiKey, served>>

NextConc ==
    \/ Boot
    \/ Run
    \/ \E i \in ConcSlots : ReceiveConc(i)
    \/ \E i \in ConcSlots : CallToolHandler(i)
    \/ \E i \in ConcSlots : ReadResourceHandler(i)
    \/ \E i \in ConcSlots : UpstreamRespondConc(i)
    \/ \E i \in ConcSlots : UpstreamFail(i)
    \/ \E i \in ConcSlots : Return(i)

SpecConc == InitConc /\ [][NextConc]_vars

\* An activation keeps running: the event loop runs the handler of a routed
\* request, and line 102, timeout: 20000, rejects a request that is still
\* pending when the time is up.
Progress(i) == CallToolHandler(i) \/ ReadResourceHandler(i) \/ UpstreamFail(i)

Fairness == \A i \in ConcSlots : WF_vars(Progress(i))

FairSpecConc == SpecConc /\ Fairness

(***************************************************************************)
(* Vocabulary of the properties.                                           *)
(***************************************************************************)
InteractionTools == {"get_gene_interactions", "get_physical_interactions",
                     "get_genetic_interactions"}

IsToolCall(c) == c.req.kind = "tool"
IsResourceRead(c) == c.req.kind = "resource"
HasArgs(c) == IsToolCall(c) /\ c.req.args.t = "object"
Failed(c, code) == c.outcome.kind = "McpError" /\ c.outcome.code = code
Succeeded(c) == c.outcome.kind = "success"

\* the required argument of the tool is missing or of the wrong type
BadRequiredArgument(name, a) ==
    \/ name \in InteractionTools /\ a.gene.t # "string"
    \/ name = "search_genes" /\ a.query.t # "string"
    \/ /\ name = "export_edge_list"
       /\ \/ a.biogrid_ids.t # "array"
          \/ Len(a.biogrid_ids.v) = 0
          \/ \E k \in 1..Len(a.biogrid_ids.v) : a.biogrid_ids.v[k].t # "string"

\* the JSON value of the text a successful invocation returns
Envelope(c) ==
    IF IsResourceRead(c) THEN c.outcome.contents[1].text.json.v
    ELSE c.outcome.content[1].text.json.v

(***************************************************************************)
(* C1: a call of a registered tool that carries an argument mapping whose  *)
(* required argument is missing or wrongly typed never issues an upstream  *)
(* request and ends in an invalid-parameters error.                        *)
(***************************************************************************)
C1_BadArgumentRejected ==
    \A i \in DOMAIN calls :
        LET c == calls[i] IN
        (/\ HasArgs(c)
         /\ c.req.name \in ToolNames
         /\ BadRequiredArgument(c.req.name, c.req.args.v))
        => /\ c.pc # "executing"
           /\ c.nreq = 0
           /\ c.request = NoRequest
           /\ c.pc = "done" => Failed(c, "InvalidParams")

C1_Witness ==
    \E i \in DOMAIN calls :
        /\ calls[i].pc = "done"
        /\ HasArgs(calls[i])
        /\ calls[i].req.name = "export_edge_list"
        /\ calls[i].req.args.v.biogrid_ids = JArr(<<JStr(<<49>>), JNum(2)>>)
        /\ Failed(calls[i], "InvalidParams")
        /\ calls[i].nreq = 0

(***************************************************************************)
(* C2: a call of a name outside the five registered tools never issues an  *)
(* upstream request and ends in a method-not-found error, whatever its     *)
(* arguments are.                                                          *)
(***************************************************************************)
C2_UnknownToolRejected ==
    \A i \in DOMAIN calls :
        LET c == calls[i] IN
        (IsToolCall(c) /\ c.req.name \notin ToolNames)
        => /\ c.pc # "executing"
           /\ c.nreq = 0
           /\ c.request = NoRequest
           /\ c.pc = "done" => Failed(c, "MethodNotFound")

C2_Witness ==
    \E i \in DOMAIN calls :
        /\ calls[i].pc = "done"
        /\ IsToolCall(calls[i])
        /\ calls[i].req.name = "get_neighbors"
        /\ calls[i].req.args = Undefined
        /\ Failed(calls[i], "MethodNotFound")
        /\ calls[i].nreq = 0

(***************************************************************************)
(* C3: every edge a successful get_physical_interactions or                *)
(* get_genetic_interactions call returns has a system_type equal, ignoring *)
(* case, to the requested type; a successful get_gene_interactions call    *)
(* returns as many edges as the upstream payload has records.              *)
(***************************************************************************)
RequestedType(name) ==
    IF name = "get_physical_interactions" THEN S_physical ELSE S_genetic

C3_EdgesOfRequestedType ==
    \A i \in DOMAIN calls :
        LET c == calls[i] IN
        (/\ c.pc = "done"
         /\ IsToolCall(c)
         /\ c.req.name \in InteractionTools
         /\ Succeeded(c))
        => LET edges == Envelope(c).edges.v IN
           IF c.req.name = "get_gene_interactions"
           THEN Len(edges) = Len(c.response.data.v)
           ELSE \A k \in 1..Len(edges) :
                    ToLowerCase(edges[k].v.system_type.v) = RequestedType(c.req.name)

C3_Witness ==
    \E i \in DOMAIN calls :
        /\ calls[i].pc = "done"
        /\ IsToolCall(calls[i])
        /\ calls[i].req.name = "get_physical_interactions"
        /\ Succeeded(calls[i])
        /\ calls[i].response.data =
               JArr(<<IRec(<<65>>, <<67>>, JStr(S_Physical)),
                      IRec(<<66>>, <<67>>, JStr(S_genetic))>>)
        /\ Len(Envelope(calls[i]).edges.v) = 1
        /\ Envelope(calls[i]).edges.v[1].v.system_type = JStr(S_Physical)

(***************************************************************************)
(* C4: in every successful result the count field equals the length of     *)
(* the sequence field that comes with it: edges for the interaction tools, *)
(* genes for search_genes, edge_list for export_edge_list and the resource.*)
(***************************************************************************)
SequenceField(c) ==
    IF IsResourceRead(c) THEN Envelope(c).edge_list
    ELSE IF c.req.name \in InteractionTools THEN Envelope(c).edges
    ELSE IF c.req.name = "search_genes" THEN Envelope(c).genes
    ELSE Envelope(c).edge_list

C4_CountIsLength ==
    \A i \in DOMAIN calls :
        LET c == calls[i] IN
        (c.pc = "done" /\ Succeeded(c))
        => /\ SequenceField(c).t = "array"
           /\ Envelope(c).count = JNum(Len(SequenceField(c).v))

C4_Witness ==
    \E i \in DOMAIN calls :
        /\ calls[i].pc = "done"
        /\ IsToolCall(calls[i])
        /\ calls[i].req.name = "get_genetic_interactions"
        /\ Succeeded(calls[i])
        /\ Len(calls[i].response.data.v) = 2
        /\ Envelope(calls[i]).count = JNum(1)

(***************************************************************************)
(* A URI matches the template biogrid://export/{biogrid_ids} when it is    *)
(* the prefix followed by a non-empty identifier part; a string with a     *)
(* line terminator in it is no URI.                                        *)
(***************************************************************************)
IdentifierPart(uri) == SubSeq(uri, Len(S_uriPrefix) + 1, Len(uri))
MatchesTemplate(uri) ==
    /\ Len(uri) > Len(S_uriPrefix)
    /\ SubSeq(uri, 1, Len(S_uriPrefix)) = S_uriPrefix
    /\ \A k \in 1..Len(uri) : uri[k] \notin {10, 13, 8232, 8233}

\* what export_edge_list does for { biogrid_ids: ids, interaction_type: 'all' }
\* when its request, if any, gets the answer r
ExportCall(ids) ==
    Dispatch(apiKey.v, "export_edge_list",
             ArgsObject([biogrid_ids |-> JArr([k \in 1..Len(ids) |-> JStr(ids[k])]),
                         interaction_type |-> JStr(S_all)]))
ExportOutcome(ids, r) ==
    LET d == ExportCall(ids) IN
    IF d.step.thrown # NoOutcome THEN d.step.thrown
    ELSE IF r.kind = "data" THEN Then(d.frame, r.data)
    ELSE Catch(d.frame, r.err)

\* the read of a URI ended as export_edge_list does for the identifiers ids
ReadAsExport(c, ids) ==
    LET e == ExportOutcome(ids, c.response) IN
    /\ c.request = ExportCall(ids).step.request
    /\ IF e.kind = "success"
       THEN Succeeded(c) /\ c.outcome.contents[1].text = e.content[1].text
       ELSE c.outcome = e

(***************************************************************************)
(* C5: a read of a URI that matches the template decodes the identifier    *)
(* part, splits it on commas, and ends as export_edge_list does for that   *)
(* identifier set and type "all": same request, same JSON text, same error.*)
(***************************************************************************)
C5_ReadEqualsExport ==
    \A i \in DOMAIN calls :
        LET c == calls[i] IN
        (c.pc = "done" /\ IsResourceRead(c) /\ MatchesTemplate(c.req.uri))
        => LET decoded == decodeURIComponent(IdentifierPart(c.req.uri)) IN
           /\ decoded.ok
           /\ ReadAsExport(c, Split(decoded.v, S_comma))

\* The equality of C5 on the URIs whose identifier part decodeURIComponent
\* accepts: what is left of C5 once the URIError of line 231 is set aside.
ReadEqualsExportWhenDecodable ==
    \A i \in DOMAIN calls :
        LET c == calls[i] IN
        (/\ c.pc = "done" /\ IsResourceRead(c) /\ MatchesTemplate(c.req.uri)
         /\ decodeURIComponent(IdentifierPart(c.req.uri)).ok)
        => ReadAsExport(c, Split(decodeURIComponent(IdentifierPart(c.req.uri)).v, S_comma))

(***************************************************************************)
(* C6: a read of a URI that does not match the template never issues an    *)
(* upstream request and ends in an invalid-request error.                  *)
(***************************************************************************)
C6_BadUriRejected ==
    \A i \in DOMAIN calls :
        LET c == calls[i] IN
        (IsResourceRead(c) /\ ~MatchesTemplate(c.req.uri))
        => /\ c.pc # "executing"
           /\ c.nreq = 0
           /\ c.request = NoRequest
           /\ c.pc = "done" => Failed(c, "InvalidRequest")

C6_Witness ==
    \E i \in DOMAIN calls :
        /\ calls[i].pc = "done"
        /\ IsResourceRead(calls[i])
        /\ calls[i].req.uri = S_uriPrefix
        /\ Failed(calls[i], "InvalidRequest")
        /\ calls[i].nreq = 0

(***************************************************************************)
(* C7: an invocation that passes validation has issued exactly one         *)
(* upstream request when it reaches its terminal outcome, and no           *)
(* invocation ever issues more than one.                                   *)
(***************************************************************************)
PassesValidation(c) ==
    \/ /\ HasArgs(c)
       /\ c.req.name \in ToolNames
       /\ ~BadRequiredArgument(c.req.name, c.req.args.v)
    \/ IsResourceRead(c) /\ MatchesTemplate(c.req.uri)

C7_ExactlyOneRequest ==
    \A i \in DOMAIN calls :
        LET c == calls[i] IN
        /\ c.nreq <= 1
        /\ (c.pc = "done" /\ PassesValidation(c)) => c.nreq = 1

\* The count of C7 on the invocations that got as far as their request.
OneRequestOnceExecuting ==
    \A i \in DOMAIN calls :
        LET c == calls[i] IN
        /\ c.pc = "executing" => c.nreq = 1
        /\ (c.pc = "done" /\ c.response.kind # "none") => c.nreq = 1
        /\ (c.pc = "done" /\ c.response.kind = "none") => c.nreq = 0

(***************************************************************************)
(* C8: when the upstream request fails, the invocation ends in an          *)
(* internal-error whose message contains the message of the failure, and   *)
(* never in a success.                                                     *)
(***************************************************************************)
Carries(text, msg) ==
    \E k \in 1..(Len(text) + 1) :
        /\ k + Len(msg) - 1 <= Len(text)
        /\ SubSeq(text, k, k + Len(msg) - 1) = msg

C8_UpstreamFailureSurfaced ==
    \A i \in DOMAIN calls :
        LET c == calls[i] IN
        (c.pc = "done" /\ c.response.kind = "error")
        => /\ Failed(c, "InternalError")
           /\ Carries(c.outcome.message, c.response.err.message)

C8_Witness ==
    \E i \in DOMAIN calls :
        /\ calls[i].pc = "done"
        /\ IsResourceRead(calls[i])
        /\ calls[i].response.kind = "error"
        /\ calls[i].response.err.message = <<"timeout", "of", "20000ms", "exceeded">>
        /\ Failed(calls[i], "InternalError")
        /\ calls[i].outcome.message =
               <<"BioGRID", "edge", "export", "error:", "timeout", "of", "20000ms", "exceeded">>

(***************************************************************************)
(* C9: an invocation that does not end in a success ends in a typed error  *)
(* of a declared kind, and a failed upstream request never ends in a       *)
(* success.                                                                *)
(***************************************************************************)
DeclaredKinds == {"InvalidParams", "MethodNotFound", "InvalidRequest", "InternalError"}

C9_EveryFailureTyped ==
    \A i \in DOMAIN calls :
        LET c == calls[i] IN
        c.pc = "done"
        => /\ \/ Succeeded(c)
              \/ c.outcome.kind = "McpError" /\ c.outcome.code \in DeclaredKinds
           /\ c.response.kind = "error" => ~Succeeded(c)

(***************************************************************************)
(* C10: a call of an interaction tool with max_results outside [1,10000],  *)
(* or of search_genes with max_results outside [1,100], is rejected with   *)
(* invalid-parameters before any upstream request, so the 'max' parameter  *)
(* of every request of these tools lies in the tool's range.               *)
(***************************************************************************)
RECURSIVE DigitsValue(_)
DigitsValue(s) ==
    IF Len(s) = 0 THEN 0
    ELSE 10 * DigitsValue(SubSeq(s, 1, Len(s) - 1)) + (s[Len(s)] - 48)
DecimalValue(s) ==
    IF Len(s) > 0 /\ s[1] = 45 THEN 0 - DigitsValue(Tail(s)) ELSE DigitsValue(s)

MaxAllowed(name) == IF name = "search_genes" THEN 100 ELSE 10000

C10_MaxResultsBounded ==
    \A i \in DOMAIN calls :
        LET c == calls[i] IN
        (HasArgs(c) /\ c.req.name \in InteractionTools \cup {"search_genes"})
        => /\ (/\ c.req.args.v.max_results.t = "number"
               /\ \/ c.req.args.v.max_results.v[1] < 1
                  \/ c.req.args.v.max_results.v[1] > MaxAllowed(c.req.name))
              => /\ c.pc # "executing"
                 /\ c.nreq = 0
                 /\ c.pc = "done" => Failed(c, "InvalidParams")
           /\ c.request # NoRequest
              => /\ DecimalValue(c.request.params.max) >= 1
                 /\ DecimalValue(c.request.params.max) <= MaxAllowed(c.req.name)

(***************************************************************************)
(* C14: when the authentication key is absent at process start the process *)
(* exits before a handler is registered and before the server connects;    *)
(* no invocation is ever served and no upstream request is ever issued     *)
(* without a key.                                                          *)
(***************************************************************************)
KeyAbsent == env.t = "undefined" \/ (env.t = "string" /\ Len(env.v) = 0)

C14_NoKeyNoService ==
    /\ KeyAbsent
       => /\ proc \in {"starting", "exited"}
          /\ served = 0
          /\ \A i \in DOMAIN calls : calls[i] = Idle
    /\ \A i \in DOMAIN calls :
          calls[i].request # NoRequest
          => /\ ~KeyAbsent
             /\ "accesskey" \in DOMAIN calls[i].request.params
             /\ Len(calls[i].request.params.accesskey) > 0

C14_Witness ==
    /\ env = Undefined
    /\ proc = "exited"
    /\ served = 0

(***************************************************************************)
(* C12: in every successful search_genes result the synonyms of each gene  *)
(* are the pieces of the record's SYNONYMS field between its '|'           *)
(* delimiters, in the original order: no piece holds a delimiter and       *)
(* joining the pieces with '|' gives the field back.                       *)
(***************************************************************************)
Names(syn) == [k \in 1..Len(syn.v) |-> syn.v[k].v]

C12_SynonymsSplitOnPipe ==
    \A i \in DOMAIN calls :
        LET c == calls[i] IN
        (/\ c.pc = "done"
         /\ IsToolCall(c)
         /\ c.req.name = "search_genes"
         /\ Succeeded(c))
        => LET genes == Envelope(c).genes.v
               data == c.response.data.v
           IN /\ Len(genes) = Len(data)
              /\ \A k \in 1..Len(genes) :
                    LET syn == genes[k].v.synonyms IN
                    /\ syn.t = "array"
                    /\ \A n \in 1..Len(syn.v) :
                          /\ syn.v[n].t = "string"
                          /\ \A m \in 1..Len(syn.v[n].v) : syn.v[n].v[m] # 124
                    /\ Join(Names(syn), S_pipe) = data[k].SYNONYMS.v

C12_Witness ==
    \E i \in DOMAIN calls :
        /\ calls[i].pc = "done"
        /\ IsToolCall(calls[i])
        /\ calls[i].req.name = "search_genes"
        /\ Succeeded(calls[i])
        /\ Len(calls[i].response.data.v) = 1
        /\ calls[i].response.data.v[1].SYNONYMS = JStr(<<112, 124, 113, 124, 114>>)
        /\ Envelope(calls[i]).genes.v[1].v.synonyms =
               JArr(<<JStr(<<112>>), JStr(<<113>>), JStr(<<114>>)>>)

(***************************************************************************)
(* C13: every upstream request, of any tool or of a resource read, carries *)
(* the response format fixed to JSON and the authentication key read from  *)
(* the environment at startup, whatever parameters the builder supplies.   *)
(***************************************************************************)
C13_FormatAndKeyInjected ==
    \A i \in DOMAIN calls :
        LET r == calls[i].request IN
        r # NoRequest
        => /\ {"format", "accesskey"} \subseteq DOMAIN r.params
           /\ r.params.format = S_json
           /\ env.t = "string"
           /\ r.params.accesskey = env.v

C13_Witness ==
    \E i \in DOMAIN calls :
        /\ calls[i].pc = "executing"
        /\ IsToolCall(calls[i])
        /\ calls[i].req.name = "get_physical_interactions"
        /\ calls[i].request.path = "/interactions/"
        /\ {"taxonId", "experimentalSystemType"} \subseteq DOMAIN calls[i].request.params
        /\ calls[i].request.params.format = S_json
        /\ calls[i].request.params.accesskey = <<75>>

(***************************************************************************)
(* C15: in the request of an interaction tool the experimental-system-type *)
(* filter and the inter-species-exclusion flag are set together or omitted *)
(* together: get_physical_interactions and get_genetic_interactions set    *)
(* both, the filter to the tool's own type, and get_gene_interactions sets *)
(* neither.                                                                *)
(***************************************************************************)
C15_FilterAndFlagTogether ==
    \A i \in DOMAIN calls :
        LET c == calls[i]
            p == c.request.params
        IN (/\ IsToolCall(c)
            /\ c.req.name \in InteractionTools
            /\ c.request # NoRequest)
           => /\ ("experimentalSystemType" \in DOMAIN p) <=> ("interSpeciesExcluded" \in DOMAIN p)
              /\ IF c.req.name = "get_gene_interactions"
                 THEN "experimentalSystemType" \notin DOMAIN p
                 ELSE /\ "experimentalSystemType" \in DOMAIN p
                      /\ p.experimentalSystemType = RequestedType(c.req.name)
                      /\ p.interSpeciesExcluded = S_true

C15_Witness ==
    \E i \in DOMAIN calls :
        /\ calls[i].pc = "executing"
        /\ IsToolCall(calls[i])
        /\ calls[i].req.name = "get_genetic_interactions"
        /\ calls[i].request.params.experimentalSystemType = S_genetic
        /\ calls[i].request.params.interSpeciesExcluded = S_true

(***************************************************************************)
(* C16: the request of every valid export_edge_list call has interactor    *)
(* expansion disabled, the result cap 10000 whatever the arguments, a gene *)
(* list made of exactly the supplied identifiers in their order, and a     *)
(* type filter that is absent when interaction_type is omitted or "all"    *)
(* and equal to the requested type otherwise.                              *)
(***************************************************************************)
ValidExport(c) ==
    /\ HasArgs(c)
    /\ c.req.name = "export_edge_list"
    /\ ~BadRequiredArgument("export_edge_list", c.req.args.v)
    /\ c.req.args.v.interaction_type \in
           {Undefined, JStr(S_all), JStr(S_physical), JStr(S_genetic)}

C16_ExportRequestShape ==
    \A i \in DOMAIN calls :
        LET c == calls[i]
            a == c.req.args.v
            p == c.request.params
        IN (ValidExport(c) /\ c.pc \in {"executing", "done"})
           => /\ c.request # NoRequest
              /\ c.request.path = "/interactions/"
              /\ p.includeInteractors = S_false
              /\ p.max = <<49, 48, 48, 48, 48>>
              /\ Split(p.geneList, S_pipe) = [k \in 1..Len(a.biogrid_ids.v) |-> a.biogrid_ids.v[k].v]
              /\ IF a.interaction_type \in {Undefined, JStr(S_all)}
                 THEN "experimentalSystemType" \notin DOMAIN p
                 ELSE /\ "experimentalSystemType" \in DOMAIN p
                      /\ p.experimentalSystemType = a.interaction_type.v

C16_Witness ==
    \E i \in DOMAIN calls :
        /\ calls[i].pc = "executing"
        /\ ValidExport(calls[i])
        /\ calls[i].req.args.v.biogrid_ids = JArr(<<JStr(<<49>>), JStr(<<50>>)>>)
        /\ calls[i].req.args.v.interaction_type = JStr(S_physical)
        /\ calls[i].req.args.v.max_results = JNum(1)
        /\ calls[i].request.params.geneList = <<49, 124, 50>>
        /\ calls[i].request.params.experimentalSystemType = S_physical

(***************************************************************************)
(* C17: whenever a type filter is supplied the constraint is checked again *)
(* at normalization: every edge of a successful get_physical_interactions  *)
(* or get_genetic_interactions call, and every pair in the edge_list of a  *)
(* successful export_edge_list call with interaction_type physical or      *)
(* genetic, comes from a raw record whose experimental-system-type equals  *)
(* the requested type ignoring case, whatever records upstream returns.    *)
(***************************************************************************)
OfType(d, type) ==
    /\ d.EXPERIMENTAL_SYSTEM_TYPE.t = "string"
    /\ ToLowerCase(d.EXPERIMENTAL_SYSTEM_TYPE.v) = type

C17_FilterRecheckedAtNormalization ==
    \A i \in DOMAIN calls :
        LET c == calls[i]
            raw == c.response.data.v
        IN (c.pc = "done" /\ HasArgs(c) /\ Succeeded(c))
           => /\ c.req.name \in {"get_physical_interactions", "get_genetic_interactions"}
                 => \A k \in 1..Len(Envelope(c).edges.v) :
                        \E j \in 1..Len(raw) :
                            /\ OfType(raw[j], RequestedType(c.req.name))
                            /\ Envelope(c).edges.v[k].v.a = raw[j].OFFICIAL_SYMBOL_A
                            /\ Envelope(c).edges.v[k].v.b = raw[j].OFFICIAL_SYMBOL_B
              /\ (/\ c.req.name = "export_edge_list"
                  /\ c.req.args.v.interaction_type \in {JStr(S_physical), JStr(S_genetic)})
                 => \A k \in 1..Len(Envelope(c).edge_list.v) :
                        \E j \in 1..Len(raw) :
                            /\ OfType(raw[j], c.req.args.v.interaction_type.v)
                            /\ Envelope(c).edge_list.v[k].v =
                                   <<raw[j].OFFICIAL_SYMBOL_A, raw[j].OFFICIAL_SYMBOL_B>>

(***************************************************************************)
(* C18: an invocation, alone or beside others, goes through validating,    *)
(* executing and a terminal outcome in that order and never backwards (an  *)
(* invocation rejected in validation has no executing phase); the upstream *)
(* request is issued only on leaving validation; every invocation          *)
(* eventually reaches a terminal state with one outcome that no later step *)
(* alters; a pending upstream request ends, answered or failed in          *)
(* transport (the timeout included), in a terminal state.                  *)
(***************************************************************************)
PhaseShape(c) ==
    /\ c.pc \in {"idle", "validating"}
       => c.nreq = 0 /\ c.request = NoRequest /\ c.outcome = NoOutcome
    /\ c.pc = "executing"
       => c.nreq = 1 /\ c.request # NoRequest /\ c.outcome = NoOutcome
    /\ c.pc = "done"
       => /\ c.outcome # NoOutcome
          /\ c.nreq \in {0, 1}
          /\ c.nreq = 1 <=> c.response.kind # "none"

PhaseOrder(i) ==
    /\ calls'[i].pc # calls[i].pc
       => <<calls[i].pc, calls'[i].pc>> \in
             { <<"idle", "validating">>, <<"validating", "executing">>,
               <<"validating", "done">>, <<"executing", "done">>, <<"done", "idle">> }
    /\ calls'[i].nreq > calls[i].nreq
       => calls[i].pc = "validating" /\ calls'[i].pc = "executing"
    /\ (calls[i].pc = "done" /\ calls'[i].pc = "done")
       => calls'[i].outcome = calls[i].outcome

Pending(i) == calls[i].pc \in {"validating", "executing"}

\* a terminal state: one outcome, and a request that was issued has been
\* answered or has failed in transport
Settled(i) ==
    /\ calls[i].pc = "done"
    /\ calls[i].outcome # NoOutcome
    /\ calls[i].nreq = 1
       => \/ calls[i].response.kind = "data"
          \/ /\ calls[i].response.kind = "error"
             /\ Failed(calls[i], "InternalError")

C18_Lifecycle ==
    /\ [](\A i \in ConcSlots : PhaseShape(calls[i]))
    /\ [][\A i \in ConcSlots : PhaseOrder(i)]_vars
    /\ \A i \in ConcSlots : Pending(i) ~> Settled(i)

C18_Witness ==
    \E i \in ConcSlots :
        /\ calls[i].pc = "done"
        /\ calls[i].nreq = 1
        /\ calls[i].response.kind = "error"
        /\ calls[i].response.err.message = <<"timeout", "of", "20000ms", "exceeded">>
        /\ Failed(calls[i], "InternalError")

(***************************************************************************)
(* C11: concurrent invocations do not interfere. A step of one invocation  *)
(* leaves every other invocation as it was, whatever that step is (an      *)
(* answer, a failure, a timeout); the outcome of an invocation is settled  *)
(* by its own request and the upstream answer to its own request: two      *)
(* invocations with the same request and the same answer have the same     *)
(* outcome, byte for byte.                                                 *)
(***************************************************************************)
SameOutcomeForSameInput ==
    \A i, j \in ConcSlots :
        (/\ calls[i].pc = "done"
         /\ calls[j].pc = "done"
         /\ calls[i].req = calls[j].req
         /\ calls[i].response = calls[j].response)
        => calls[i].outcome = calls[j].outcome

OthersUntouched ==
    \A i, j \in ConcSlots :
        (i # j /\ calls'[i] # calls[i]) => calls'[j] = calls[j]

C11_NoInterference ==
    /\ [](SameOutcomeForSameInput)
    /\ [][OthersUntouched]_vars

C11_Witness ==
    /\ calls["s1"].pc = "done"
    /\ calls["s2"].pc = "done"
    /\ calls["s1"].req.kind = "tool"
    /\ calls["s1"].req.name = "get_physical_interactions"
    /\ calls["s1"].req = calls["s2"].req
    /\ calls["s1"].response.kind = "data"
    /\ calls["s1"].response = calls["s2"].response
    /\ Succeeded(calls["s1"])
    /\ Len(Envelope(calls["s1"]).edges.v) = 1
    /\ calls["s1"].outcome = calls["s2"].outcome

====
